---- MODULE Spec2Model ----
(***************************************************************************)
(* Model of migrate_db.js: a one-shot script that reads ../db.json,        *)
(* decrypts the encryptedCode of every account, and writes db.json.        *)
(*                                                                         *)
(* JSON / JavaScript values are tagged records [t, v] so that values of    *)
(* different JavaScript types stay comparable.  An object is a total       *)
(* function over Fields whose value is Absent for a key the object does    *)
(* not own.                                                                *)
(***************************************************************************)
EXTENDS Integers, Sequences, FiniteSets, TLC

\* ---------------------------------------------------------------- bounds
MaxAccounts == 2

\* ------------------------------------------------------------- constants
PARENT_DB_PATH == "../db.json"
TARGET_DB_PATH == "db.json"

\* ---------------------------------------------------------------- values
Str(s) == [t |-> "str", v |-> s]
Null == [t |-> "null", v |-> ""]
Undefined == [t |-> "undefined", v |-> ""]
Absent == [t |-> "absent", v |-> ""]

Fields == {"name", "encryptedCode", "code", "level"}

\* Property access obj.k : a key the object does not own reads as undefined.
Get(obj, k) == IF obj[k] = Absent THEN Undefined ELSE obj[k]

\* JavaScript truthiness of the values an account field can hold here.
TruthyEmptyString(x) == x.t = "str"

Truthy(x) == x.t = "str" /\ x.v # ""

\* Ciphertexts appearing in the source documents.
CipherGood == "U2FsdGVkX1+abc"
CipherEmptyPlain == "U2FsdGVkX1+nil"
CipherCorrupt == "not-a-ciphertext"

\* CryptoJS.AES.decrypt(ciphertext, SECRET_KEY).toString(Utf8): either the
\* UTF-8 plaintext, or an exception ("Malformed UTF-8 data").
CipherThrows(c) == c = CipherCorrupt
CipherPlain(c) == IF c = CipherGood THEN "ABC123" ELSE ""

\* decrypt(ciphertext): the plaintext, or null when the cipher layer throws.
decryptAlwaysNull(c) == Null

decrypt(c) == IF CipherThrows(c) THEN Null ELSE Str(CipherPlain(c))

\* Where control goes when decrypt is left: its try/catch swallows the
\* exception of the cipher layer, so the callback always resumes.
afterDecryptUncaught(c) == IF CipherThrows(c) THEN "catch" ELSE "check"

afterDecrypt(c) == "check"

\* const { encryptedCode, ...rest } = acc
restOfKeepsCipher(a) == a

restOf(a) == [a EXCEPT !["encryptedCode"] = Absent]

\* { ...rest, code: plainCode }
withCode(r, p) == [r EXCEPT !["code"] = p]

\* JSON.stringify of one property value: an undefined property is omitted.
stringifyValue(x) == IF x = Undefined THEN Absent ELSE x

\* JSON.stringify(newDb, null, 2): the document the text denotes.
stringify(d) ==
    [hasAccounts |-> TRUE,
     accounts |-> [k \in 1..Len(d.accounts) |->
                     [t |-> "obj",
                      f |-> [x \in Fields |-> stringifyValue(d.accounts[k][x])]]],
     settings |-> stringifyValue(d.settings)]

\* --------------------------------------------------------- input domains
NameValues == {Str("alice"), Str("bob")}
EncValues == {Absent, Null, Str(""), Str(CipherGood), Str(CipherEmptyPlain),
              Str(CipherCorrupt)}
ExtraValues == {[code |-> Absent, level |-> Absent],
                [code |-> Str("OLD"), level |-> Str("gold")]}

NoFields == [x \in Fields |-> Absent]

Account(n, e, ex) ==
    [t |-> "obj",
     f |-> [x \in Fields |->
              CASE x = "name" -> n
                [] x = "encryptedCode" -> e
                [] x = "code" -> ex.code
                [] x = "level" -> ex.level]]

\* Elements of the accounts array: named account records, account records
\* without a name, or JSON null.
AccountRecords ==
    {Account(n, e, ex) : n \in NameValues, e \in EncValues, ex \in ExtraValues}
    \cup {Account(Absent, e, [code |-> Absent, level |-> Absent]) :
             e \in {Absent, Str(CipherCorrupt)}}
NullElement == [t |-> "null", f |-> NoFields]
Elements == AccountRecords \cup {NullElement}

SettingsValues == {Absent, Str("theme-dark")}

AccountSeqs == UNION {[1..n -> Elements] : n \in 0..MaxAccounts}

\* Documents a valid JSON text can denote; hasAccounts = FALSE is a document
\* whose accounts property is missing.
Documents ==
    {[hasAccounts |-> TRUE, accounts |-> s, settings |-> st] :
        s \in AccountSeqs, st \in SettingsValues}
    \cup {[hasAccounts |-> FALSE, accounts |-> <<>>, settings |-> st] :
        st \in SettingsValues}
EmptyDoc == [hasAccounts |-> FALSE, accounts |-> <<>>, settings |-> Absent]

MissingFile == [exists |-> FALSE, valid |-> FALSE, doc |-> EmptyDoc]
InvalidFile == [exists |-> TRUE, valid |-> FALSE, doc |-> EmptyDoc]
ValidFile(d) == [exists |-> TRUE, valid |-> TRUE, doc |-> d]
SourceFiles == {MissingFile, InvalidFile} \cup {ValidFile(d) : d \in Documents}

\* ----------------------------------------------------------------- state
VARIABLES
    files,          \* the file system: path -> file
    fsOps,          \* file-system calls made so far, in order
    log,            \* console lines written so far, in order
    exitCode,       \* "unset" until process.exit(1) sets it
    pc,             \* position of the script
    db,             \* const db
    idx,            \* index of the element the map callback is at
    encryptedCode,  \* the callback's encryptedCode
    rest,           \* the callback's rest
    plainCode,      \* the callback's plainCode
    newAccounts,    \* the elements map has produced so far
    newDb           \* const newDb

vars == <<files, fsOps, log, exitCode, pc, db, idx, encryptedCode, rest,
          plainCode, newAccounts, newDb>>

Init ==
    /\ \E src \in SourceFiles :
         files = [p \in {PARENT_DB_PATH, TARGET_DB_PATH} |->
                    IF p = PARENT_DB_PATH THEN src ELSE MissingFile]
    /\ fsOps = <<>>
    /\ log = <<>>
    /\ exitCode = "unset"
    /\ pc = "start"
    /\ db = EmptyDoc
    /\ idx = 1
    /\ encryptedCode = Undefined
    /\ rest = NoFields
    /\ plainCode = Null
    /\ newAccounts = <<>>
    /\ newDb = [accounts |-> <<>>, settings |-> Undefined]

Line(kind, arg) == [kind |-> kind, arg |-> arg]

\* if (!fs.existsSync(PARENT_DB_PATH)) { console.error(...); process.exit(1) }
CheckExistsFallsThrough ==
    /\ pc = "start"
    /\ fsOps' = Append(fsOps, [op |-> "exists", path |-> PARENT_DB_PATH])
    /\ log' = IF files[PARENT_DB_PATH].exists THEN log
              ELSE Append(log, Line("not_found", PARENT_DB_PATH))
    /\ pc' = "read"
    /\ UNCHANGED <<files, exitCode, db, idx, encryptedCode, rest, plainCode,
                   newAccounts, newDb>>

CheckExists ==
    /\ pc = "start"
    /\ fsOps' = Append(fsOps, [op |-> "exists", path |-> PARENT_DB_PATH])
    /\ IF files[PARENT_DB_PATH].exists
         THEN /\ pc' = "read"
              /\ UNCHANGED <<log, exitCode>>
         ELSE /\ log' = Append(log, Line("not_found", PARENT_DB_PATH))
              /\ exitCode' = "1"
              /\ pc' = "exited"
    /\ UNCHANGED <<files, db, idx, encryptedCode, rest, plainCode,
                   newAccounts, newDb>>

\* const raw = fs.readFileSync(...); const db = JSON.parse(raw);
ReadParse ==
    /\ pc = "read"
    /\ fsOps' = Append(fsOps, [op |-> "read", path |-> PARENT_DB_PATH])
    /\ IF files[PARENT_DB_PATH].valid
         THEN /\ db' = files[PARENT_DB_PATH].doc
              /\ pc' = "loaded"
         ELSE /\ pc' = "catch"
              /\ UNCHANGED db
    /\ UNCHANGED <<files, log, exitCode, idx, encryptedCode, rest, plainCode,
                   newAccounts, newDb>>

\* console.log(`Loaded DB with ${db.accounts.length} accounts.`)
LogLoaded ==
    /\ pc = "loaded"
    /\ IF db.hasAccounts
         THEN /\ log' = Append(log, Line("loaded", ToString(Len(db.accounts))))
              /\ pc' = "map"
         ELSE /\ pc' = "catch"
              /\ UNCHANGED log
    /\ UNCHANGED <<files, fsOps, exitCode, db, idx, encryptedCode, rest,
                   plainCode, newAccounts, newDb>>

\* db.accounts.map(acc => { const { encryptedCode, ...rest } = acc;
\*                          let plainCode = null; if (encryptedCode) ...
MapEnter ==
    /\ pc = "map"
    /\ idx <= Len(db.accounts)
    /\ LET acc == db.accounts[idx] IN
         IF acc.t = "obj"
           THEN /\ encryptedCode' = Get(acc.f, "encryptedCode")
                /\ rest' = restOf(acc.f)
                /\ plainCode' = Null
                /\ pc' = IF Truthy(Get(acc.f, "encryptedCode"))
                           THEN "decrypt" ELSE "check"
           ELSE /\ pc' = "catch"
                /\ UNCHANGED <<encryptedCode, rest, plainCode>>
    /\ UNCHANGED <<files, fsOps, log, exitCode, db, idx, newAccounts, newDb>>

\* plainCode = decrypt(encryptedCode)
Decrypt ==
    /\ pc = "decrypt"
    /\ plainCode' = decrypt(encryptedCode.v)
    /\ log' = IF CipherThrows(encryptedCode.v)
                THEN Append(log, Line("decrypt_error", "Malformed UTF-8 data"))
                ELSE log
    /\ pc' = afterDecrypt(encryptedCode.v)
    /\ UNCHANGED <<files, fsOps, exitCode, db, idx, encryptedCode, rest,
                   newAccounts, newDb>>

\* if (!plainCode) { console.warn(... acc.name ...); plainCode = "" }
\* return { ...rest, code: plainCode }
nameOf(a) == IF Get(a, "name").t = "str" THEN Get(a, "name").v
             ELSE Get(a, "name").t

finalCode(p) == IF Truthy(p) THEN p ELSE Str("")

mustWarnOnNull(p) == p = Null

mustWarn(p) == ~Truthy(p)

\* Array.prototype.map collects the callback's results in element order.
mapCollectFront(accs, a) == <<a>> \o accs

mapCollect(accs, a) == Append(accs, a)

CheckReturn ==
    /\ pc = "check"
    /\ log' = IF mustWarn(plainCode)
                THEN Append(log, Line("warn", nameOf(db.accounts[idx].f)))
                ELSE log
    /\ plainCode' = finalCode(plainCode)
    /\ newAccounts' = mapCollect(newAccounts, withCode(rest, finalCode(plainCode)))
    /\ idx' = idx + 1
    /\ pc' = "map"
    /\ UNCHANGED <<files, fsOps, exitCode, db, encryptedCode, rest, newDb>>

\* const newDb = { accounts: newAccounts, settings: db.settings }
buildDbDropsSettings(accs, d) == [accounts |-> accs, settings |-> Undefined]

buildDb(accs, d) == [accounts |-> accs, settings |-> Get(d, "settings")]

Assemble ==
    /\ pc = "map"
    /\ idx > Len(db.accounts)
    /\ newDb' = buildDb(newAccounts, db)
    /\ pc' = "write"
    /\ UNCHANGED <<files, fsOps, log, exitCode, db, idx, encryptedCode, rest,
                   plainCode, newAccounts>>

\* fs.writeFileSync(TARGET_DB_PATH, JSON.stringify(newDb, null, 2), 'utf-8')
\* The file system may refuse the write (e.g. permission denied).
writePathSource == PARENT_DB_PATH

writePath == TARGET_DB_PATH

Write ==
    /\ pc = "write"
    /\ fsOps' = Append(fsOps, [op |-> "write", path |-> writePath])
    /\ \E ok \in BOOLEAN :
         IF ok
           THEN /\ files' = [files EXCEPT ![writePath] =
                                ValidFile(stringify(newDb))]
                /\ pc' = "success"
           ELSE /\ pc' = "catch"
                /\ UNCHANGED files
    /\ UNCHANGED <<log, exitCode, db, idx, encryptedCode, rest, plainCode,
                   newAccounts, newDb>>

\* console.log(`[SUCCESS] Migrated DB saved to ${TARGET_DB_PATH}`)
LogSuccess ==
    /\ pc = "success"
    /\ log' = Append(log, Line("success", TARGET_DB_PATH))
    /\ pc' = "done"
    /\ UNCHANGED <<files, fsOps, exitCode, db, idx, encryptedCode, rest,
                   plainCode, newAccounts, newDb>>

\* catch (e) { console.error("Migration failed:", e) }
CatchSetsExit ==
    /\ pc = "catch"
    /\ log' = Append(log, Line("failed", "Migration failed"))
    /\ exitCode' = "1"
    /\ pc' = "done"
    /\ UNCHANGED <<files, fsOps, db, idx, encryptedCode, rest,
                   plainCode, newAccounts, newDb>>

Catch ==
    /\ pc = "catch"
    /\ log' = Append(log, Line("failed", "Migration failed"))
    /\ pc' = "done"
    /\ UNCHANGED <<files, fsOps, exitCode, db, idx, encryptedCode, rest,
                   plainCode, newAccounts, newDb>>

Next ==
    \/ CheckExists
    \/ ReadParse
    \/ LogLoaded
    \/ MapEnter
    \/ Decrypt
    \/ CheckReturn
    \/ Assemble
    \/ Write
    \/ LogSuccess
    \/ Catch

Spec == Init /\ [][Next]_vars

\* The script is a single synchronous thread: it runs until it ends.
FairSpec == Spec /\ WF_vars(Next)

TypeOK ==
    /\ pc \in {"start", "read", "loaded", "map", "decrypt", "check", "write",
               "success", "catch", "done", "exited"}
    /\ exitCode \in {"unset", "1"}
    /\ idx \in 1..(MaxAccounts + 1)

\* ------------------------------------------------------------ properties
source == files[PARENT_DB_PATH]
output == files[TARGET_DB_PATH]
InAcc(k) == source.doc.accounts[k].f
OutAcc(k) == output.doc.accounts[k].f
InCount == Len(source.doc.accounts)
OutCount == Len(output.doc.accounts)

HasNoCipher(a) == a["encryptedCode"] \in {Absent, Null, Str("")}
DecryptFails(a) ==
    /\ ~HasNoCipher(a)
    /\ CipherThrows(a["encryptedCode"].v)
DecryptsToText(a) ==
    /\ ~HasNoCipher(a)
    /\ ~CipherThrows(a["encryptedCode"].v)
    /\ CipherPlain(a["encryptedCode"].v) # ""
DecryptsToEmpty(a) ==
    /\ ~HasNoCipher(a)
    /\ ~CipherThrows(a["encryptedCode"].v)
    /\ CipherPlain(a["encryptedCode"].v) = ""

\* The account the migration is to produce from the input account a.
Migrated(a) ==
    [x \in Fields |->
       IF x = "encryptedCode" THEN Absent
       ELSE IF x = "code"
              THEN IF DecryptsToText(a)
                     THEN Str(CipherPlain(a["encryptedCode"].v))
                     ELSE Str("")
       ELSE a[x]]

\* C1: when the output document has been written, its accounts sequence has
\* exactly as many entries as the input's, and the entry at index i is the
\* migrated form of the input account at index i.
C1_SameCountSameOrder ==
    output.exists =>
        /\ OutCount = InCount
        /\ \A k \in 1..InCount : OutAcc(k) = Migrated(InAcc(k))

C1_Witness ==
    /\ output.exists
    /\ InCount = 2
    /\ InAcc(1) # InAcc(2)
    /\ Migrated(InAcc(1)) # Migrated(InAcc(2))

\* C2 (as stated): every field of an input account other than encryptedCode,
\* a field named code included, has the same value in the output account.
C2_Original ==
    output.exists =>
        \A k \in 1..InCount : \A x \in Fields \ {"encryptedCode"} :
            InAcc(k)[x] # Absent => OutAcc(k)[x] = InAcc(k)[x]

\* C2 (amended): every field other than encryptedCode and code is the same in
\* the output account as in the input account (present with the same value,
\* or absent in both), encryptedCode is gone and code is a string; the
\* transform changes nothing but encryptedCode and code.
C2_PassThrough ==
    output.exists =>
        \A k \in 1..InCount :
            /\ \A x \in Fields \ {"encryptedCode", "code"} :
                   OutAcc(k)[x] = InAcc(k)[x]
            /\ OutAcc(k)["encryptedCode"] = Absent
            /\ OutAcc(k)["code"].t = "str"

C2_Witness ==
    /\ output.exists
    /\ \E k \in 1..InCount :
         /\ InAcc(k)["level"] # Absent
         /\ InAcc(k)["name"] # Absent
         /\ InAcc(k)["code"] # Absent
         /\ InAcc(k)["encryptedCode"] # Absent

\* C3: the settings of the written output document equal the settings of the
\* input document, and the settings the script holds in memory are the
\* input's at every step after parsing.
C3_SettingsUntouched ==
    /\ output.exists => output.doc.settings = source.doc.settings
    /\ pc \notin {"start", "read", "catch", "done", "exited"} =>
           db.settings = source.doc.settings

C3_Witness ==
    /\ output.exists
    /\ source.doc.settings # Absent
    /\ \E k \in 1..InCount : DecryptFails(InAcc(k))

\* C4: an account whose encryptedCode decrypts to a non-empty string S has
\* code S in the output account at the same index.
C4_DecryptedCode ==
    output.exists =>
        \A k \in 1..InCount :
            DecryptsToText(InAcc(k)) =>
                OutAcc(k)["code"] = Str(CipherPlain(InAcc(k)["encryptedCode"].v))

C4_Witness ==
    /\ output.exists
    /\ \E k \in 1..InCount :
         /\ DecryptsToText(InAcc(k))
         /\ OutAcc(k)["code"] = Str("ABC123")

\* C5: for an account whose encryptedCode is absent, null or the empty
\* string, decrypt is never entered, and its output code is the empty string.
C5_NoCipherNoDecrypt ==
    /\ pc = "decrypt" => ~HasNoCipher(db.accounts[idx].f)
    /\ output.exists =>
           \A k \in 1..InCount :
               HasNoCipher(InAcc(k)) => OutAcc(k)["code"] = Str("")

C5_Witness ==
    /\ output.exists
    /\ InCount = 2
    /\ InAcc(1)["encryptedCode"] = Null
    /\ InAcc(2)["encryptedCode"] = Str("")

AllRecords ==
    /\ source.exists
    /\ source.valid
    /\ source.doc.hasAccounts
    /\ \A k \in 1..InCount : source.doc.accounts[k].t = "obj"

\* A cipher exception leaves decrypt through its own catch block.
C6_CaughtInDecrypt ==
    [][(pc = "decrypt" /\ CipherThrows(encryptedCode.v)) =>
          /\ pc' = "check"
          /\ plainCode' = Null
          /\ log' = Append(log, Line("decrypt_error", "Malformed UTF-8 data"))]_vars

C6_FailedCodeEmpty ==
    \A k \in 1..Len(newAccounts) :
        DecryptFails(InAcc(k)) => newAccounts[k]["code"] = Str("")

C6_ReachesWrite ==
    (AllRecords /\ pc = "map") ~>
        (pc = "write" /\ Len(newDb.accounts) = InCount)

\* C6: a failing decryption is caught inside decrypt (the callback resumes
\* with null, an error line is logged, the top-level handler is not entered),
\* the account's code is the empty string, and a run over account records
\* always reaches the write with all N accounts transformed.
C6_DecryptFailureNonFatal ==
    /\ C6_CaughtInDecrypt
    /\ []C6_FailedCodeEmpty
    /\ C6_ReachesWrite

C6_Witness ==
    /\ pc = "write"
    /\ InCount = 2
    /\ DecryptFails(InAcc(1))
    /\ DecryptsToText(InAcc(2))
    /\ newDb.accounts[1]["code"] = Str("")

HasOp(o) == \E k \in 1..Len(fsOps) : fsOps[k].op = o
HasLine(kind) == \E k \in 1..Len(log) : log[k].kind = kind
CountLines(kind) == Cardinality({k \in 1..Len(log) : log[k].kind = kind})

\* C7: when the source file does not exist, the script reads nothing,
\* transforms nothing, writes nothing, logs exactly one error line and ends
\* with exit status 1.
C7_MissingSource ==
    (~source.exists /\ pc # "start") =>
        /\ pc = "exited"
        /\ exitCode = "1"
        /\ log = <<Line("not_found", PARENT_DB_PATH)>>
        /\ fsOps = <<[op |-> "exists", path |-> PARENT_DB_PATH]>>
        /\ newAccounts = <<>>
        /\ ~output.exists

C7_Witness == ~source.exists /\ pc = "exited"

\* C8: when the source exists but is not valid JSON, nothing is written, the
\* top-level handler logs the failure, no success line is logged and no exit
\* status is set; exit status 1 is set only when the source is missing.
C8_InvalidJson ==
    /\ (source.exists /\ ~source.valid) =>
           /\ ~HasOp("write")
           /\ ~output.exists
           /\ ~HasLine("success")
           /\ exitCode = "unset"
           /\ pc \in {"start", "read", "catch", "done"}
           /\ pc = "done" => log = <<Line("failed", "Migration failed")>>
    /\ exitCode = "1" => ~source.exists

C8_Witness == source.exists /\ ~source.valid /\ pc = "done"

RECURSIVE ExpectedWarnings(_)
\* The names of the first n input accounts whose output code is empty.
ExpectedWarnings(n) ==
    IF n = 0 THEN <<>>
    ELSE IF newAccounts[n]["code"] = Str("")
           THEN Append(ExpectedWarnings(n - 1),
                       IF InAcc(n)["name"] = Absent THEN "undefined"
                       ELSE InAcc(n)["name"].v)
           ELSE ExpectedWarnings(n - 1)

IsWarning(l) == l.kind = "warn"
WarningNames == [k \in 1..Len(SelectSeq(log, IsWarning)) |->
                   SelectSeq(log, IsWarning)[k].arg]

\* C9: the warning lines logged so far are, in order, one per transformed
\* account whose output code is the empty string, each naming that account;
\* the code is empty exactly for a failed decryption, a missing/null/empty
\* encryptedCode and an empty plaintext.
C9_WarnIffEmptyCode ==
    /\ WarningNames = ExpectedWarnings(Len(newAccounts))
    /\ \A k \in 1..Len(newAccounts) :
         (newAccounts[k]["code"] = Str("")) <=>
            (HasNoCipher(InAcc(k)) \/ DecryptFails(InAcc(k))
               \/ DecryptsToEmpty(InAcc(k)))

C9_Witness ==
    /\ pc = "write"
    /\ InCount = 2
    /\ DecryptsToEmpty(InAcc(1))
    /\ DecryptsToText(InAcc(2))
    /\ WarningNames = <<"alice">>

WriteOps == {k \in 1..Len(fsOps) : fsOps[k].op = "write"}
Terminated == pc \in {"done", "exited"}

C10_Safety ==
    /\ Cardinality(WriteOps) <= 1
    /\ \A k \in WriteOps : fsOps[k].path = TARGET_DB_PATH
    /\ HasOp("write") =>
           /\ db.hasAccounts
           /\ Len(newAccounts) = Len(db.accounts)
           /\ Len(newDb.accounts) = Len(db.accounts)
    /\ HasLine("success") =>
           /\ output.exists
           /\ ~HasLine("failed")
           /\ ~HasLine("not_found")
    /\ (Terminated /\ source.exists /\ ~output.exists) =>
           /\ CountLines("failed") = 1
           /\ ~HasLine("success")
    /\ Terminated =>
           /\ CountLines("success") + CountLines("failed")
                + CountLines("not_found") = 1
           /\ log[Len(log)].kind \in {"success", "failed", "not_found"}

C10_SourceNeverWritten == [][files'[PARENT_DB_PATH] = files[PARENT_DB_PATH]]_vars

\* C10: the script writes at most once, to the destination only and never to
\* the source, and only after every account is transformed; the success line
\* implies a completed write; a failed write or an earlier exception ends in
\* the handler's error line without a success line; every run terminates,
\* and its last line is the one success line or the one error line.
C10_WriteOnceThenReport ==
    /\ []C10_Safety
    /\ C10_SourceNeverWritten
    /\ <>Terminated

C10_Witness ==
    /\ pc = "done"
    /\ HasOp("write")
    /\ ~output.exists
    /\ InCount = 2
    /\ log[Len(log)].kind = "failed"
====
